---- MODULE Spec2Model ----
(***************************************************************************)
(* Model of week10_resource_tagging_app.py: a Streamlit script that keeps  *)
(* two tables in st.session_state (the original load and the remediated    *)
(* copy), lets the user edit the untagged rows in a data editor and merges *)
(* the edited rows back into the remediated table by ResourceID.           *)
(*                                                                         *)
(* A table is a sequence of rows; a row is a record of cells.  A missing   *)
(* cell (pandas NaN / None) is the value NaN.  MonthlyCostUSD cells keep   *)
(* their decimal text; Dollars gives the number pandas parsed from it.     *)
(*                                                                         *)
(* DataFrames are objects: heap maps an object reference to the table it   *)
(* holds, and st.session_state holds references, so that aliasing between  *)
(* the original and the remediated table is something the model can show.  *)
(***************************************************************************)
EXTENDS Integers, Sequences, FiniteSets, TLC

VARIABLES
    csv,            \* the table stored in original.csv (never written by the script)
    heap,           \* DataFrame objects: reference -> table
    session_state,  \* st.session_state: key -> reference, or Absent
    edited_df,      \* what st.data_editor returns in the current run
    nEdits,         \* editor interactions so far
    nApply,         \* Apply Remediation submissions so far
    lastOp,         \* history: the last interaction ("none", "run", "edit", "apply")
    prev,           \* history: the remediated table before the last run/apply
    submitted,      \* history: the editor content of the last submission
    score_df,       \* argument of calculate_tag_completeness_score
    score_result,   \* its return value
    cost_df,        \* argument of analyze_cost_visibility / Executive Summary
    cost_result     \* their results

sessionVars == <<csv, heap, session_state, edited_df, nEdits, nApply, lastOp, prev, submitted>>
scoreVars == <<score_df, score_result>>
costVars == <<cost_df, cost_result>>
vars == <<sessionVars, scoreVars, costVars>>

(***************************************************************************)
(* Bounds of the model.                                                    *)
(***************************************************************************)
NumRows == 2
MaxEdits == 1
MaxApply == 2
ScoreRows == 1
CostRows == 3
MantissaBits == 3

(***************************************************************************)
(* Cells and rows.                                                         *)
(***************************************************************************)
NaN == "NaN"

isna(v) == v = NaN

tag_columns == <<"Department", "Project", "Environment", "Owner", "CostCenter">>

TagColumnSet == {tag_columns[k] : k \in DOMAIN tag_columns}

EditorColumns ==
    {"ResourceID", "Service", "Department", "Project", "Environment", "Owner",
     "CostCenter", "MonthlyCostUSD"}

FrameColumns == {"ResourceID", "Service", "Region", "AccountID", "MonthlyCostUSD"}

\* The number read_csv parses from a MonthlyCostUSD cell; a missing cell is
\* skipped by every sum (skipna), i.e. counts 0.
Dollars(c) ==
    CASE c = "10" -> 10
      [] c = "25" -> 25
      [] c = "40" -> 40
      [] c = "99" -> 99
      [] OTHER -> 0

RECURSIVE SumCost(_)
SumCost(t) == IF t = <<>> THEN 0 ELSE Dollars(Head(t).MonthlyCostUSD) + SumCost(Tail(t))

IsYes(r) == r.Tagged = "Yes"
IsNo(r) == r.Tagged = "No"

CountYes(t) == Len(SelectSeq(t, IsYes))
CountNo(t) == Len(SelectSeq(t, IsNo))

(***************************************************************************)
(* The tables original.csv may hold.  Row k carries its own identifier;    *)
(* the second row may repeat the first row's (read_csv does not reject a   *)
(* repeated ResourceID).  A tagged row carries all five tags; an untagged  *)
(* row has Environment, Owner and CostCenter missing and Department and    *)
(* Project both missing, Department alone present, or both present.        *)
(***************************************************************************)
IdSeq == <<"r1", "r2", "r3", "r4">>
CostSeq == <<"10", "25", "40", "10">>

TaggedRow(k, id) ==
    [ResourceID |-> id, Service |-> "EC2", Region |-> "us-east-1", AccountID |-> "1001",
     Department |-> "Sales", Project |-> "Web", Environment |-> "Prod",
     Owner |-> "ann", CostCenter |-> "CC1", MonthlyCostUSD |-> CostSeq[k],
     Tagged |-> "Yes"]

UntaggedRow(k, id, d, p) ==
    [ResourceID |-> id, Service |-> "EC2", Region |-> "us-east-1", AccountID |-> "1001",
     Department |-> d, Project |-> p, Environment |-> NaN,
     Owner |-> NaN, CostCenter |-> NaN, MonthlyCostUSD |-> CostSeq[k],
     Tagged |-> "No"]

RowChoices(k) ==
    LET ids == IF k = 2 THEN {IdSeq[2], IdSeq[1]} ELSE {IdSeq[k]} IN
    {TaggedRow(k, id) : id \in ids}
    \cup {UntaggedRow(k, id, NaN, NaN) : id \in ids}
    \cup {UntaggedRow(k, id, "Sales", NaN) : id \in ids}
    \cup {UntaggedRow(k, id, "Sales", "Web") : id \in ids}

Datasets == {t \in [1..NumRows -> UNION {RowChoices(k) : k \in 1..NumRows}] :
                \A k \in 1..NumRows : t[k] \in RowChoices(k)}

(***************************************************************************)
(* DataFrame objects and st.session_state.                                 *)
(***************************************************************************)
Absent == "absent"
Refs == {"loaded", "copied"}

\* load_cloudmart_data: a new DataFrame holding the rows of the file.
load_cloudmart_data(h, file) == [heap |-> [h EXCEPT !["loaded"] = file], ref |-> "loaded"]

\* A slip that forgets .copy(): the second key would alias the first object.
DataFrameAlias(h, r) == [heap |-> h, ref |-> r]

\* DataFrame.copy(): a new object with the same cells.
DataFrameCopy(h, r) == [heap |-> [h EXCEPT !["copied"] = h[r]], ref |-> "copied"]

\* if 'cloudmart_data' not in st.session_state: ... = load_cloudmart_data(file_path)
InitCloudmartData(s) ==
    IF s.ss.cloudmart_data = Absent
    THEN LET l == load_cloudmart_data(s.heap, s.file)
         IN  [s EXCEPT !.ss.cloudmart_data = l.ref, !.heap = l.heap]
    ELSE s

\* A slip that drops the membership test: the copy is remade on every run.
InitRemediatedDataAlways(s) ==
    LET c == DataFrameCopy(s.heap, s.ss.cloudmart_data)
    IN  [s EXCEPT !.ss.remediated_data = c.ref, !.heap = c.heap]

\* if 'remediated_data' not in st.session_state: ... = cloudmart_data.copy()
InitRemediatedData(s) ==
    IF s.ss.remediated_data = Absent
    THEN LET c == DataFrameCopy(s.heap, s.ss.cloudmart_data)
         IN  [s EXCEPT !.ss.remediated_data = c.ref, !.heap = c.heap]
    ELSE s

\* The top of the script, executed by every run: both session keys are set
\* if absent, then df and remediated_df are read from the session.
ScriptTop(ss, h, file) == InitRemediatedData(InitCloudmartData([ss |-> ss, heap |-> h, file |-> file]))

Initialised == session_state.cloudmart_data # Absent /\ session_state.remediated_data # Absent

\* df and remediated_df as the current run reads them.
df == heap[session_state.cloudmart_data]
remediated_df == heap[session_state.remediated_data]

(***************************************************************************)
(* Tab 5: the editor and Apply Remediation.                                *)
(***************************************************************************)
EditorRow(r) == [c \in EditorColumns |-> r[c]]

RECURSIVE MapEditor(_)
MapEditor(t) == IF t = <<>> THEN <<>> ELSE <<EditorRow(Head(t))>> \o MapEditor(Tail(t))

\* remediated_df[remediated_df['Tagged'] == 'No'].copy(), restricted to the
\* eight columns handed to st.data_editor.
untagged_for_editing(t) == MapEditor(SelectSeq(t, IsNo))

\* The row num_rows="dynamic" appends: every cell missing.
EmptyEditorRow == [c \in EditorColumns |-> NaN]

\* mask = remediated_df['ResourceID'] == resource_id (a missing value equals nothing)
Mask(r, resource_id) == ~isna(resource_id) /\ r.ResourceID = resource_id

\* A slip: the loop body also inserts an editor row that matches nothing.
ApplyRowUpsert(t, row) ==
    IF \E i \in DOMAIN t : Mask(t[i], row.ResourceID)
    THEN [i \in DOMAIN t |->
            IF Mask(t[i], row.ResourceID)
            THEN [t[i] EXCEPT !.Department = row.Department, !.Project = row.Project,
                              !.Environment = row.Environment, !.Owner = row.Owner,
                              !.CostCenter = row.CostCenter,
                              !.Tagged = IF ~isna(row.Department) /\ ~isna(row.Project)
                                         THEN "Yes" ELSE @]
            ELSE t[i]]
    ELSE Append(t, [ResourceID |-> row.ResourceID, Service |-> row.Service,
                    Region |-> NaN, AccountID |-> NaN,
                    Department |-> row.Department, Project |-> row.Project,
                    Environment |-> row.Environment, Owner |-> row.Owner,
                    CostCenter |-> row.CostCenter, MonthlyCostUSD |-> row.MonthlyCostUSD,
                    Tagged |-> "No"])

\* A slip: the loop body writes every editor column back, Service and cost too.
ApplyRowAllColumns(t, row) ==
    [i \in DOMAIN t |->
        IF Mask(t[i], row.ResourceID)
        THEN [t[i] EXCEPT !.Service = row.Service, !.MonthlyCostUSD = row.MonthlyCostUSD,
                          !.Department = row.Department, !.Project = row.Project,
                          !.Environment = row.Environment, !.Owner = row.Owner,
                          !.CostCenter = row.CostCenter,
                          !.Tagged = IF ~isna(row.Department) /\ ~isna(row.Project)
                                     THEN "Yes" ELSE @]
        ELSE t[i]]

\* A slip: the Tagged flag follows the editor row both ways.
ApplyRowRetag(t, row) ==
    [i \in DOMAIN t |->
        IF Mask(t[i], row.ResourceID)
        THEN [t[i] EXCEPT !.Department = row.Department, !.Project = row.Project,
                          !.Environment = row.Environment, !.Owner = row.Owner,
                          !.CostCenter = row.CostCenter,
                          !.Tagged = IF ~isna(row.Department) /\ ~isna(row.Project)
                                     THEN "Yes" ELSE "No"]
        ELSE t[i]]

\* A slip: the Tagged flag is set without looking at Department and Project.
ApplyRowAlwaysTag(t, row) ==
    [i \in DOMAIN t |->
        IF Mask(t[i], row.ResourceID)
        THEN [t[i] EXCEPT !.Department = row.Department, !.Project = row.Project,
                          !.Environment = row.Environment, !.Owner = row.Owner,
                          !.CostCenter = row.CostCenter, !.Tagged = "Yes"]
        ELSE t[i]]

\* A slip: CostCenter is not written back.
ApplyRowNoCostCenter(t, row) ==
    [i \in DOMAIN t |->
        IF Mask(t[i], row.ResourceID)
        THEN [t[i] EXCEPT !.Department = row.Department, !.Project = row.Project,
                          !.Environment = row.Environment, !.Owner = row.Owner,
                          !.Tagged = IF ~isna(row.Department) /\ ~isna(row.Project)
                                     THEN "Yes" ELSE @]
        ELSE t[i]]

\* One iteration of `for idx, row in edited_df.iterrows()`.
ApplyRow(t, row) ==
    [i \in DOMAIN t |->
        IF Mask(t[i], row.ResourceID)
        THEN [t[i] EXCEPT !.Department = row.Department, !.Project = row.Project,
                          !.Environment = row.Environment, !.Owner = row.Owner,
                          !.CostCenter = row.CostCenter,
                          !.Tagged = IF ~isna(row.Department) /\ ~isna(row.Project)
                                     THEN "Yes" ELSE @]
        ELSE t[i]]

\* The whole loop, in iterrows order.
RECURSIVE ApplyLoop(_, _)
ApplyLoop(t, e) == IF e = <<>> THEN t ELSE ApplyLoop(ApplyRow(t, Head(e)), Tail(e))

\* The editor and the button exist only when some row is untagged.
EditorShown == Initialised /\ untagged_for_editing(remediated_df) # <<>>

(***************************************************************************)
(* The metrics of tab 5.                                                   *)
(***************************************************************************)
original_tagged == CountYes(df)
original_untagged == CountNo(df)
original_untagged_cost == SumCost(SelectSeq(df, IsNo))
remediated_tagged == CountYes(remediated_df)
remediated_untagged == CountNo(remediated_df)
remediated_untagged_cost == SumCost(SelectSeq(remediated_df, IsNo))

\* (original_untagged - remediated_untagged) / original_untagged * 100, as the
\* exact fraction num/den; 0 when original_untagged is 0.
improvement_percentage(ou, ru) ==
    IF ou > 0 THEN [num |-> (ou - ru) * 100, den |-> ou] ELSE [num |-> 0, den |-> 1]

(***************************************************************************)
(* The session: every interaction reruns the script from the top.          *)
(***************************************************************************)
EmptySession == [cloudmart_data |-> Absent, remediated_data |-> Absent]
EmptyHeap == [r \in Refs |-> <<>>]

\* What the user can type into a cell of the editor.
KnownIds == {IdSeq[k] : k \in 1..NumRows}

CellValues(col) ==
    CASE col = "ResourceID" -> KnownIds \cup {"r9"}
      [] col = "Service" -> {"S3"}
      [] col = "MonthlyCostUSD" -> {"99"}
      [] OTHER -> {NaN, "x"}

FunctionsIdle ==
    /\ score_df = <<>> /\ score_result = <<>>
    /\ cost_df = <<>> /\ cost_result = <<>>

SessionIdle ==
    /\ csv = <<>> /\ heap = EmptyHeap /\ session_state = EmptySession
    /\ edited_df = <<>> /\ nEdits = 0 /\ nApply = 0
    /\ lastOp = "none" /\ prev = <<>> /\ submitted = <<>>

Init ==
    /\ csv \in Datasets
    /\ heap = EmptyHeap
    /\ session_state = EmptySession
    /\ edited_df = <<>>
    /\ nEdits = 0
    /\ nApply = 0
    /\ lastOp = "none"
    /\ prev = <<>>
    /\ submitted = <<>>
    /\ FunctionsIdle

\* A run of the script that no tab-5 widget caused: the first run of the
\* session, or a rerun after a filter of tab 4 changed (observed here after
\* a submission; the reruns during editing are EditorRerun).  The editor
\* keeps its content unless this is the run that creates it.
ScriptRun ==
    LET s == ScriptTop(session_state, heap, csv) IN
    /\ lastOp \in {"none", "apply"}
    /\ session_state' = s.ss
    /\ heap' = s.heap
    /\ edited_df' = IF Initialised THEN edited_df
                    ELSE untagged_for_editing(s.heap[s.ss.remediated_data])
    /\ prev' = IF Initialised THEN remediated_df ELSE <<>>
    /\ lastOp' = "run"
    /\ submitted' = <<>>
    /\ UNCHANGED <<csv, nEdits, nApply, scoreVars, costVars>>

\* The rerun an editor interaction causes, with the editor's new content.
EditorRerun(e) ==
    LET s == ScriptTop(session_state, heap, csv) IN
    /\ EditorShown
    /\ nEdits < MaxEdits
    /\ session_state' = s.ss
    /\ heap' = s.heap
    /\ edited_df' = e
    /\ nEdits' = nEdits + 1
    /\ lastOp' = "edit"
    /\ prev' = <<>>
    /\ submitted' = <<>>
    /\ UNCHANGED <<csv, nApply, scoreVars, costVars>>

\* The user retypes one cell of the editor.
EditCell ==
    \E i \in DOMAIN edited_df : \E col \in EditorColumns :
        \E v \in CellValues(col) \ {edited_df[i][col]} :
            EditorRerun([edited_df EXCEPT ![i][col] = v])

\* The user adds a row at the bottom of the editor.
AddRow == EditorRerun(Append(edited_df, EmptyEditorRow))

\* The user deletes a row of the editor.
DeleteRow ==
    \E i \in DOMAIN edited_df :
        EditorRerun(SubSeq(edited_df, 1, i - 1) \o SubSeq(edited_df, i + 1, Len(edited_df)))

\* The user presses Apply Remediation: the run in which st.button returns
\* True merges the editor rows, writes the table back to the session and
\* calls st.rerun(); the rerun reads the session and repopulates the editor.
ApplyRemediation ==
    LET s == ScriptTop(session_state, heap, csv)
        ref == s.ss.remediated_data
        merged == [s.heap EXCEPT ![ref] = ApplyLoop(@, edited_df)]
        written == [s.ss EXCEPT !.remediated_data = ref]
        r == ScriptTop(written, merged, csv)
    IN  /\ EditorShown
        /\ nApply < MaxApply
        /\ session_state' = r.ss
        /\ heap' = r.heap
        /\ edited_df' = untagged_for_editing(r.heap[r.ss.remediated_data])
        /\ nApply' = nApply + 1
        /\ lastOp' = "apply"
        /\ prev' = remediated_df
        /\ submitted' = edited_df
        /\ UNCHANGED <<csv, nEdits, scoreVars, costVars>>

Next == ScriptRun \/ EditCell \/ AddRow \/ DeleteRow \/ ApplyRemediation

Spec == Init /\ [][Next]_vars

(***************************************************************************)
(* Properties of the session (checked under Spec).                         *)
(***************************************************************************)
SameTags(a, b) == \A c \in TagColumnSet : a[c] = b[c]
SameFrame(a, b) == \A c \in FrameColumns : a[c] = b[c]
Complete(row) == ~isna(row.Department) /\ ~isna(row.Project)
Matching(e, r) == {k \in DOMAIN e : Mask(r, e[k].ResourceID)}
LastOf(S) == CHOOSE k \in S : \A j \in S : j <= k
UniqueId(t, i) == \A j \in DOMAIN t : t[j].ResourceID = t[i].ResourceID => j = i
Applied == lastOp = "apply"

\* C1: in every state of the session the remediated table has the same
\* row identifiers as the original table: as many rows, and row by row the
\* same ResourceID, whatever rows the user added to, deleted from or
\* retyped in the editor.
C1_SameRowIdentifiers ==
    Initialised =>
        /\ Len(remediated_df) = Len(df)
        /\ \A i \in DOMAIN df : remediated_df[i].ResourceID = df[i].ResourceID

\* A submission whose editor held a row that matches no resource (a row
\* the user added, or whose ResourceID was retyped to an unknown one).
C1_Witness ==
    /\ Applied
    /\ \E k \in DOMAIN submitted : \A i \in DOMAIN df : ~Mask(df[i], submitted[k].ResourceID)
    /\ Len(remediated_df) = Len(df)

\* C2: a submission leaves unchanged every row whose Tagged was 'Yes' when
\* the editor was populated (stated here for the tables whose identifiers
\* are distinct, where no two rows can be confused).
C2_TaggedRowsUntouched ==
    (Applied /\ \A i \in DOMAIN prev : UniqueId(prev, i)) =>
        \A i \in DOMAIN prev : prev[i].Tagged = "Yes" => remediated_df[i] = prev[i]

\* C3: in every state ResourceID, Service, Region, AccountID and
\* MonthlyCostUSD of every remediated row equal their values in the
\* original table, also after the user edited Service or MonthlyCostUSD
\* cells of the editor.
C3_FrameColumnsKept ==
    Initialised =>
        /\ DOMAIN remediated_df = DOMAIN df
        /\ \A i \in DOMAIN df : SameFrame(remediated_df[i], df[i])

\* A submission in which an editor row that matches a resource carried an
\* edited Service or MonthlyCostUSD cell.
C3_Witness ==
    /\ Applied
    /\ \E k \in DOMAIN submitted : \E i \in DOMAIN prev :
          /\ Mask(prev[i], submitted[k].ResourceID)
          /\ (submitted[k].Service = "S3" \/ submitted[k].MonthlyCostUSD = "99")
          /\ SameFrame(remediated_df[i], prev[i])

\* C4: the original table never changes: in every state it holds the rows
\* of the initial load, it is another object than the remediated table, and
\* the Original Data metrics are those of the initial load.
C4_OriginalImmutable ==
    Initialised =>
        /\ df = csv
        /\ session_state.cloudmart_data # session_state.remediated_data
        /\ original_tagged = CountYes(csv)
        /\ original_untagged = CountNo(csv)
        /\ original_untagged_cost = SumCost(SelectSeq(csv, IsNo))

\* A submission changed the remediated table, and a later rerun has run.
C4_Witness ==
    /\ lastOp = "run" /\ nApply > 0
    /\ remediated_df # df
    /\ df = csv

\* C5: the session keys are initialised once: the first run makes the
\* remediated table a copy of the load, a later rerun leaves it as it was,
\* and the run after a submission reads the table as merged by it.
C5_InitialisedOnce ==
    /\ (lastOp = "run" /\ nApply = 0) => (Initialised /\ remediated_df = csv /\ df = csv)
    /\ (lastOp = "run" /\ nApply > 0) => (Initialised /\ remediated_df = prev)
    /\ Applied => (Initialised /\ remediated_df = ApplyLoop(prev, submitted))

\* The second submission of a session changed a table that the first one
\* had already changed.
C5_Witness ==
    /\ Applied /\ nApply = 2
    /\ prev # csv
    /\ remediated_df # prev
    /\ \E i \in DOMAIN csv : remediated_df[i] # csv[i] /\ prev[i] = remediated_df[i]

\* C7: a submission merges the editor rows in order.  A remediated row that
\* no editor row matches by ResourceID is unchanged; a matched row gets the
\* five tag fields of the last editor row matching it, becomes Tagged 'Yes'
\* when some matching editor row has Department and Project both present
\* and otherwise keeps its flag; each single iteration sets exactly the
\* matching rows to its editor row's values.
C7_MergeByResourceId ==
    Applied =>
        /\ DOMAIN remediated_df = DOMAIN prev
        /\ \A i \in DOMAIN prev :
              LET M == Matching(submitted, prev[i]) IN
              IF M = {}
              THEN remediated_df[i] = prev[i]
              ELSE /\ SameTags(remediated_df[i], submitted[LastOf(M)])
                   /\ SameFrame(remediated_df[i], prev[i])
                   /\ remediated_df[i].Tagged =
                         IF \E k \in M : Complete(submitted[k]) THEN "Yes" ELSE prev[i].Tagged
        /\ \A k \in DOMAIN submitted :
              LET before == ApplyLoop(prev, SubSeq(submitted, 1, k - 1))
                  after == ApplyLoop(prev, SubSeq(submitted, 1, k))
              IN  \A i \in DOMAIN prev :
                     IF Mask(before[i], submitted[k].ResourceID)
                     THEN /\ SameTags(after[i], submitted[k])
                          /\ after[i].Tagged =
                                IF Complete(submitted[k]) THEN "Yes" ELSE before[i].Tagged
                     ELSE after[i] = before[i]

\* A submission with an editor row that changed a resource's tag fields
\* without tagging it, next to an editor row that matches nothing.
C7_Witness ==
    /\ Applied
    /\ \E i \in DOMAIN prev :
          /\ Matching(submitted, prev[i]) # {}
          /\ ~SameTags(remediated_df[i], prev[i])
          /\ remediated_df[i].Tagged = "No"
    /\ \E i \in DOMAIN prev : Matching(submitted, prev[i]) = {}

\* C8 as stated: a submission of the unedited editor leaves the remediated
\* table, and with it the After Remediation counters, unchanged (stated
\* here for the tables whose identifiers are distinct).
C8_NoEditNoChange ==
    (Applied /\ submitted = untagged_for_editing(prev)
             /\ \A i \in DOMAIN prev : UniqueId(prev, i)) =>
        /\ remediated_df = prev
        /\ CountNo(remediated_df) = CountNo(prev)
        /\ CountYes(remediated_df) = CountYes(prev)

\* C8 amended: a submission of the unedited editor leaves unchanged every
\* row whose ResourceID no other row carries, except that such a row becomes
\* Tagged 'Yes' when it was 'No' with Department and Project both present;
\* the untagged count does not rise, and the table is unchanged when
\* identifiers are distinct and no untagged row has both fields present.
C8_NoEditOnlyTags ==
    (Applied /\ submitted = untagged_for_editing(prev)) =>
        /\ \A i \in DOMAIN prev :
              UniqueId(prev, i) =>
                 remediated_df[i] =
                    [prev[i] EXCEPT !.Tagged = IF @ = "No" /\ Complete(prev[i]) THEN "Yes" ELSE @]
        /\ CountNo(remediated_df) <= CountNo(prev)
        /\ ((\A i \in DOMAIN prev : UniqueId(prev, i) /\ ~(IsNo(prev[i]) /\ Complete(prev[i])))
               => remediated_df = prev)

\* The unedited editor was submitted with an untagged row that lacks
\* Project, and nothing changed.
C8_Witness ==
    /\ Applied /\ submitted = untagged_for_editing(prev)
    /\ \E i \in DOMAIN prev : IsNo(prev[i]) /\ ~Complete(prev[i]) /\ UniqueId(prev, i)
    /\ remediated_df = prev

\* C9: no submission turns a Tagged 'Yes' into 'No': the untagged count
\* never rises from one submission to the next and never exceeds the
\* original's, the Tagged Resources delta is not negative, and the
\* improvement percentage lies in 0..100 and is 0 when nothing was untagged.
C9_Monotone ==
    /\ Applied =>
          /\ \A i \in DOMAIN prev : prev[i].Tagged = "Yes" => remediated_df[i].Tagged = "Yes"
          /\ CountNo(remediated_df) <= CountNo(prev)
    /\ Initialised =>
          LET pct == improvement_percentage(original_untagged, remediated_untagged) IN
          /\ remediated_untagged <= original_untagged
          /\ remediated_tagged - original_tagged >= 0
          /\ pct.den > 0
          /\ 0 <= pct.num /\ pct.num <= 100 * pct.den
          /\ (original_untagged = 0 => pct.num = 0)

\* A submission tagged some but not all of the untagged resources, with a
\* tagged resource in the table.
C9_Witness ==
    /\ Applied
    /\ 0 < remediated_untagged /\ remediated_untagged < CountNo(prev)
    /\ improvement_percentage(original_untagged, remediated_untagged).num > 0

(***************************************************************************)
(* calculate_tag_completeness_score, a pure function of its table.         *)
(***************************************************************************)
ScoreValues == {NaN, "", "x"}
ScoreTables == [1..ScoreRows -> [TagColumnSet -> ScoreValues]]

WithColumn(r, name, v) == [c \in DOMAIN r \cup {name} |-> IF c = name THEN v ELSE r[c]]

\* A slip: only missing values are excluded, the empty string counts.
FilledNotNa(v) == ~isna(v)

\* ~df_copy[col].isna() & (df_copy[col] != '')
Filled(v) == ~isna(v) /\ v # ""

\* for col in tag_columns: df_copy['TagCompleteness'] += (...).astype(int)
RECURSIVE AddCompleteness(_, _)
AddCompleteness(t, cols) ==
    IF cols = <<>> THEN t
    ELSE AddCompleteness(
            [i \in DOMAIN t |->
                [t[i] EXCEPT !.TagCompleteness = @ + (IF Filled(t[i][Head(cols)]) THEN 1 ELSE 0)]],
            Tail(cols))

\* (TagCompleteness / len(tag_columns)) * 100: for the counts 0..5 the
\* double k / 5 * 100 is exactly 0, 20, 40, 60, 80, 100.
Percentage(k, n) == (k * 100) \div n

Scored(t) ==
    LET zeroed == [i \in DOMAIN t |-> WithColumn(t[i], "TagCompleteness", 0)]
        counted == AddCompleteness(zeroed, tag_columns)
    IN  [i \in DOMAIN t |->
            WithColumn(counted[i], "TagCompletenessPercentage",
                       Percentage(counted[i].TagCompleteness, Len(tag_columns)))]

\* The call: arg is the caller's table after the call, ret the returned table.
calculate_tag_completeness_score(d) == [arg |-> d, ret |-> Scored(d)]

InitScore ==
    /\ SessionIdle
    /\ cost_df = <<>> /\ cost_result = <<>>
    /\ score_df \in ScoreTables
    /\ score_result = <<>>

CalculateScore ==
    /\ score_result = <<>>
    /\ LET call == calculate_tag_completeness_score(score_df) IN
        /\ score_df' = call.arg
        /\ score_result' = <<[input |-> score_df, ret |-> call.ret]>>
    /\ UNCHANGED <<sessionVars, costVars>>

NextScore == CalculateScore

SpecScore == InitScore /\ [][NextScore]_vars

\* C6: the returned table gives every row a TagCompleteness equal to the
\* number of its five tag fields that are neither missing nor the empty
\* string and a TagCompletenessPercentage of that count / 5 * 100, one of
\* 0, 20, 40, 60, 80, 100; the other cells are the input's, and the table
\* passed in is left as it was.
C6_TagCompleteness ==
    score_result # <<>> =>
        LET in == score_result[1].input
            out == score_result[1].ret
        IN  /\ score_df = in
            /\ DOMAIN out = DOMAIN in
            /\ \A i \in DOMAIN in :
                  LET n == Cardinality({c \in TagColumnSet : in[i][c] # NaN /\ in[i][c] # ""}) IN
                  /\ out[i].TagCompleteness = n
                  /\ out[i].TagCompletenessPercentage * 5 = n * 100
                  /\ out[i].TagCompletenessPercentage \in {0, 20, 40, 60, 80, 100}
                  /\ \A c \in TagColumnSet : out[i][c] = in[i][c]

\* A scored row with a missing field, an empty-string field and three
\* filled ones.
C6_Witness ==
    /\ score_result # <<>>
    /\ \E i \in DOMAIN score_df :
          /\ \E c \in TagColumnSet : score_df[i][c] = ""
          /\ \E c \in TagColumnSet : score_df[i][c] = NaN
          /\ score_result[1].ret[i].TagCompletenessPercentage = 60

(***************************************************************************)
(* analyze_cost_visibility and the Executive Summary, pure functions of    *)
(* the loaded table.  MonthlyCostUSD is a binary floating-point column:    *)
(* every addition rounds its result to the nearest representable number,   *)
(* ties to even.  The model keeps that arithmetic with a mantissa of       *)
(* MantissaBits bits (the code's doubles have 53); amounts are whole       *)
(* numbers of the smallest unit.                                           *)
(***************************************************************************)
RECURSIVE Pow2(_)
Pow2(n) == IF n = 0 THEN 1 ELSE 2 * Pow2(n - 1)

\* The spacing of the representable numbers around x >= 0.
RECURSIVE Ulp(_)
Ulp(x) == IF x < Pow2(MantissaBits) THEN 1 ELSE 2 * Ulp(x \div 2)

\* Round to nearest, ties to even.
Round(x) ==
    LET u == Ulp(x)
        q == x \div u
        r == x % u
    IN  IF 2 * r < u THEN q * u
        ELSE IF 2 * r > u THEN (q + 1) * u
        ELSE IF q % 2 = 0 THEN q * u ELSE (q + 1) * u

FAdd(a, b) == Round(a + b)

\* Series.sum(): the cells added one after the other.
RECURSIVE FSumFrom(_, _)
FSumFrom(acc, t) == IF t = <<>> THEN acc ELSE FSumFrom(FAdd(acc, Head(t).MonthlyCostUSD), Tail(t))

FSum(t) == FSumFrom(0, t)

\* df.groupby('Tagged')['MonthlyCostUSD'].sum().get(key, 0)
GroupCost(t, key) == LET IsKey(r) == r.Tagged = key IN FSum(SelectSeq(t, IsKey))

\* x / y * 100 as the fraction it rounds, for y > 0.
PercentOf(x, y) == [num |-> x * 100, den |-> y]

\* A slip: total_cost forgets the untagged group.
analyze_cost_tagged_only(t) ==
    LET tagged_cost == GroupCost(t, "Yes")
        untagged_cost == GroupCost(t, "No")
        total_cost == tagged_cost
    IN  [tagged_cost |-> tagged_cost, untagged_cost |-> untagged_cost,
         total_cost |-> total_cost,
         untagged_cost_percentage |->
            IF total_cost > 0 THEN PercentOf(untagged_cost, total_cost)
            ELSE [num |-> 0, den |-> 1]]

\* The first four results of analyze_cost_visibility.
analyze_cost_visibility(t) ==
    LET tagged_cost == GroupCost(t, "Yes")
        untagged_cost == GroupCost(t, "No")
        total_cost == FAdd(tagged_cost, untagged_cost)
    IN  [tagged_cost |-> tagged_cost, untagged_cost |-> untagged_cost,
         total_cost |-> total_cost,
         untagged_cost_percentage |->
            IF total_cost > 0 THEN PercentOf(untagged_cost, total_cost)
            ELSE [num |-> 0, den |-> 1]]

\* Executive Summary: total_monthly_cost = df['MonthlyCostUSD'].sum()
total_monthly_cost(t) == FSum(t)

\* The amounts a cell of the file can hold (each representable) and the
\* tables built from them; Tagged is the binary flag of the data model.
CostValues == {0, 3, 5, 6}
CostTables == [1..CostRows -> [Tagged : {"Yes", "No"}, MonthlyCostUSD : CostValues]]

InitCost ==
    /\ SessionIdle
    /\ score_df = <<>> /\ score_result = <<>>
    /\ cost_df \in CostTables
    /\ cost_result = <<>>

AnalyzeCost ==
    /\ cost_result = <<>>
    /\ cost_result' = <<[visibility |-> analyze_cost_visibility(cost_df),
                         summary |-> total_monthly_cost(cost_df)]>>
    /\ UNCHANGED <<sessionVars, scoreVars, cost_df>>

NextCost == AnalyzeCost

SpecCost == InitCost /\ [][NextCost]_vars

RECURSIVE ExactSum(_)
ExactSum(t) == IF t = <<>> THEN 0 ELSE Head(t).MonthlyCostUSD + ExactSum(Tail(t))

Abs(x) == IF x < 0 THEN 0 - x ELSE x

\* C10 as stated: total_cost equals the Executive Summary's sum over all
\* rows, and the untagged percentage is untagged_cost / total_cost * 100, or
\* 0 when total_cost is not positive.
C10_TotalsEqual ==
    cost_result # <<>> =>
        LET v == cost_result[1].visibility IN
        /\ v.total_cost = cost_result[1].summary
        /\ IF v.total_cost > 0
           THEN v.untagged_cost_percentage.num * v.total_cost
                   = v.untagged_cost * 100 * v.untagged_cost_percentage.den
           ELSE v.untagged_cost_percentage.num = 0

\* C10 amended: total_cost and the Executive Summary's total are both the
\* sum over all rows up to floating-point rounding: they are equal, and
\* equal to the exact sum, whenever no addition rounds, and differ by at
\* most two spacings of the numbers around the exact sum per row otherwise;
\* the untagged percentage is untagged_cost / total_cost * 100, or 0 when
\* total_cost is not positive.
C10_TotalsEqualUpToRounding ==
    cost_result # <<>> =>
        LET v == cost_result[1].visibility
            exact == ExactSum(cost_df)
        IN  /\ (exact < Pow2(MantissaBits) =>
                   v.total_cost = exact /\ cost_result[1].summary = exact)
            /\ Abs(v.total_cost - cost_result[1].summary) <= 2 * Len(cost_df) * Ulp(exact)
            /\ IF v.total_cost > 0
               THEN v.untagged_cost_percentage.num * v.total_cost
                       = v.untagged_cost * 100 * v.untagged_cost_percentage.den
               ELSE v.untagged_cost_percentage.num = 0

\* A table with tagged and untagged cost whose additions are all exact,
\* and the two totals equal.
C10_Witness ==
    /\ cost_result # <<>>
    /\ cost_result[1].visibility.tagged_cost > 0
    /\ cost_result[1].visibility.untagged_cost > 0
    /\ ExactSum(cost_df) < Pow2(MantissaBits)
    /\ cost_result[1].visibility.total_cost = cost_result[1].summary

====
